---- MODULE Spec2Model ----
(***************************************************************************)
(* repo-secret-manager: the secret catalogue (vault), the file index and   *)
(* the substitution engine.                                                *)
(*                                                                         *)
(* Strings are sequences of one-character strings, so that substring       *)
(* search, split/join replacement and placeholder construction are         *)
(* computed character by character as the code computes them.  A UUID is   *)
(* abbreviated to a one-character identifier drawn from a counter.  The    *)
(* description and creation time of a record are informational and are     *)
(* left out.  Paths are sequences of path segments; the repository root    *)
(* is the one-segment path GitRoot.                                        *)
(***************************************************************************)
EXTENDS Integers, Sequences, FiniteSets, TLC

VARIABLES
  vault,     \* the persisted vault: password, records in key order, index
  files,     \* the working tree: file name -> content, or Absent
  nextUuid,  \* the number of identifiers uuidv4 has handed out, plus one
  last,      \* the last command run and how it ended
  snap,      \* what the last substitution calls on one file saw and reported
  ops,       \* the number of substitution commands run so far
  gitignore, \* the paths, relative to the root, that .gitignore lists
  tracked,   \* the files in the git index
  conv,      \* a file name taken through the redact/unredact path transforms
  procs,     \* the invocations that run side by side: position and loaded store
  glob       \* a file name tested against a glob pattern, and the answer

vars == <<vault, files, nextUuid, last, snap, ops, gitignore, tracked, conv, procs, glob>>

\* what the commands that run alone and write no git state leave alone
others == <<gitignore, tracked, conv, procs, glob>>

-----------------------------------------------------------------------------
(* Bounds *)

MaxSecrets == 2
MaxUuid == 3
MaxRows == 1
MaxOps == 3
MaxNameLen == 4

-----------------------------------------------------------------------------
(* Input alphabets *)

NoName == <<>>

SecretValues == { <<"q">>, <<"e">>, <<"q", "z">> }

NameInputs == { <<"d", "b">>, <<"1">>, <<"n", "!">> }

Passwords == { "pw", "bad" }

FileOrder == <<"a", "b">>

FileNames == { FileOrder[i] : i \in 1..Len(FileOrder) }

Contents == { <<"k", "=", "q">>, <<"e">>, <<"q", "z", "e">>, <<"n", "o">> }

Absent == <<"\\absent">>

GitRoot == <<"repo">>

-----------------------------------------------------------------------------
(* String primitives *)

Range(seq) == { seq[i] : i \in 1..Len(seq) }

\* the sequences over S of length up to n
RECURSIVE SeqsUpTo(_, _)
SeqsUpTo(S, n) ==
  IF n = 0 THEN { <<>> }
  ELSE LET shorter == SeqsUpTo(S, n - 1)
       IN shorter \cup { Append(s, x) : s \in shorter, x \in S }

\* String.prototype.includes: literal substring containment
Includes(content, s) ==
  \E i \in 1..(Len(content) - Len(s) + 1) :
    SubSeq(content, i, i + Len(s) - 1) = s

\* content.split(s).join(p) for a non-empty s: every occurrence found
\* scanning left to right is replaced, the inserted text is not rescanned
RECURSIVE SplitJoin(_, _, _)
SplitJoin(content, s, p) ==
  IF Len(content) < Len(s) THEN content
  ELSE IF SubSeq(content, 1, Len(s)) = s
       THEN p \o SplitJoin(SubSeq(content, Len(s) + 1, Len(content)), s, p)
       ELSE <<content[1]>> \o SplitJoin(Tail(content), s, p)

-----------------------------------------------------------------------------
(* Secret catalogue helpers *)

getPlaceholderId(rec) == IF rec.name # NoName THEN rec.name ELSE rec.id

PlaceholderPrefix == <<"<", "!", "s", "e", "c", "r", "e", "t", "_">>

PlaceholderSuffix == <<"!", ">">>

generatePlaceholder(rec) ==
  PlaceholderPrefix \o getPlaceholderId(rec) \o PlaceholderSuffix

\* position of the first record with the given name, 0 if none
findSecretByName(secrets, name) ==
  IF \E i \in 1..Len(secrets) : secrets[i].name # NoName /\ secrets[i].name = name
  THEN CHOOSE i \in 1..Len(secrets) :
         /\ secrets[i].name # NoName /\ secrets[i].name = name
         /\ \A j \in 1..(i - 1) : ~(secrets[j].name # NoName /\ secrets[j].name = name)
  ELSE 0

nameExists(secrets, name) == findSecretByName(secrets, name) # 0

\* position of the record with the given key, 0 if none
KeyIndex(secrets, id) ==
  IF \E i \in 1..Len(secrets) : secrets[i].id = id
  THEN CHOOSE i \in 1..Len(secrets) : secrets[i].id = id
  ELSE 0

\* the two lookups in the other order: the key first, then the name
findSecretByIdentifier_KeyFirst(secrets, identifier) ==
  IF KeyIndex(secrets, identifier) # 0
  THEN KeyIndex(secrets, identifier)
  ELSE findSecretByName(secrets, identifier)

findSecretByIdentifier(secrets, identifier) ==
  IF findSecretByName(secrets, identifier) # 0
  THEN findSecretByName(secrets, identifier)
  ELSE KeyIndex(secrets, identifier)

\* /^[a-zA-Z0-9_-]+$/
NameChars ==
  { "a", "b", "c", "d", "e", "f", "g", "h", "i", "j", "k", "l", "m",
    "n", "o", "p", "q", "r", "s", "t", "u", "v", "w", "x", "y", "z",
    "A", "B", "C", "D", "E", "F", "G", "H", "I", "J", "K", "L", "M",
    "N", "O", "P", "Q", "R", "S", "T", "U", "V", "W", "X", "Y", "Z",
    "0", "1", "2", "3", "4", "5", "6", "7", "8", "9", "_", "-" }

\* the same character class without the ^...$ anchors
ValidName_Unanchored(name) == \E i \in 1..Len(name) : name[i] \in NameChars

ValidName(name) == Len(name) > 0 /\ \A i \in 1..Len(name) : name[i] \in NameChars

UuidChars == <<"1", "2", "3", "4", "5", "6", "7", "8", "9">>

uuidv4(n) == <<UuidChars[n]>>

-----------------------------------------------------------------------------
(* The persisted vault *)

NoIndex == [defined |-> FALSE, entries |-> <<>>]

\* the text every vault blob begins with; text is the part of the vault file
\* that does not depend on the salt, as a reader of the file sees it
VaultHeader ==
  <<"$", "A", "N", "S", "I", "B", "L", "E", "_", "V", "A", "U", "L", "T", ";">>

NoVault ==
  [exists |-> FALSE, pw |-> "", secrets |-> <<>>, index |-> NoIndex, text |-> <<>>]

\* encryptVaultFile: the whole blob is replaced under the given password
encryptVaultFile(pw, secrets, index) ==
  [exists |-> TRUE, pw |-> pw, secrets |-> secrets, index |-> index,
   text |-> VaultHeader]

\* getPassword validates the password against an existing vault, and
\* decryptVaultFile throws on a wrong password or on a blob that is not a
\* vault blob any more
CanDecrypt(pw) == vault.exists /\ pw = vault.pw /\ vault.text = VaultHeader

\* the record of a finished command: id is the record it touched, if any,
\* and n the number of index entries it dropped
\* id: the record the command created, changed or removed; n: the number of
\* index entries a delete dropped; arg: the identifier a delete was given
Outcome(op, status) ==
  [op |-> op, status |-> status, id |-> <<>>, n |-> 0, arg |-> <<>>]

OutcomeId(op, status, id) ==
  [op |-> op, status |-> status, id |-> id, n |-> 0, arg |-> <<>>]

\* stage "encrypted": the last command encrypted one file in place; "twice":
\* the last two did, on the same file; "roundtrip": an encrypt of one file
\* was followed at once by a decrypt of it.  orig is the content before the
\* first of these calls, before and after are the content around the last
\* one, first and second are the "changed" results of the calls
NoSnap == [stage |-> "none", file |-> "", orig |-> <<>>, before |-> <<>>,
           after |-> <<>>, first |-> FALSE, second |-> FALSE]

NoGlob == [tested |-> FALSE, name |-> <<>>, pattern |-> <<>>, result |-> "false"]

NoConv == [stage |-> "none", name |-> <<>>, redacted |-> <<>>, original |-> <<>>]

\* the working tree: the files of FileOrder and their redacted siblings in
\* the root, and one file in the subdirectory "d".  A file is named by its
\* last path segment; BaseName spells the base name the segment stands for
RelPath ==
  [a |-> <<"a">>, ar |-> <<"ar">>, b |-> <<"b">>, br |-> <<"br">>, c |-> <<"d", "c">>]

BaseName ==
  [a  |-> <<"a">>,
   ar |-> <<"a", ".", "r", "e", "d", "a", "c", "t", "e", "d">>,
   b  |-> <<"b", ".", "t">>,
   br |-> <<"b", ".", "r", "e", "d", "a", "c", "t", "e", "d", ".", "t">>,
   c  |-> <<"c">>]

AllNames == DOMAIN RelPath

\* fs.readdirSync(dir), dir relative to the root
Listing(dir) ==
  IF dir = <<>> THEN <<"a", "ar", "b", "br", "d">>
  ELSE IF dir = <<"d">> THEN <<"c">>
  ELSE <<>>

Directories == { <<"d">> }

\* an invocation of add: pc is "idle" before it has read the vault, "loaded"
\* while it holds its own copy of the store, with its record put in, and
\* "stored" when it has written the vault; overlap tells that it and the
\* other invocation both held a copy before either wrote
NoProcs ==
  [p \in {1, 2} |->
     [pc |-> "idle", secrets |-> <<>>, index |-> NoIndex, pw |-> "",
      id |-> <<>>, overlap |-> FALSE]]

\* the tree with the given contents for the files of FileOrder, nothing else
TreeOf(given) ==
  [f \in AllNames |-> IF f \in FileNames THEN given[f] ELSE Absent]

\* no vault yet, and a working tree of two files
Init ==
  /\ vault = NoVault
  /\ files = TreeOf([f \in FileNames |->
                      IF f = FileOrder[1] THEN <<"k", "=", "q">> ELSE <<"q", "z", "e">>])
  /\ nextUuid = 1
  /\ last = Outcome("init", "ok")
  /\ snap = NoSnap
  /\ ops = 0
  /\ gitignore = {}
  /\ tracked = FileNames
  /\ conv = NoConv
  /\ procs = NoProcs
  /\ glob = NoGlob

-----------------------------------------------------------------------------
(* add [name] <secret> *)

\* a duplicate check whose loop starts one record too late
DuplicateValue_SkipFirst(secrets, secret) ==
  \E i \in 2..Len(secrets) : secrets[i].secret = secret

DuplicateValue(secrets, secret) ==
  \E i \in 1..Len(secrets) : secrets[i].secret = secret

Add(customName, secret, pw) ==
  LET store == IF vault.exists THEN vault ELSE NoVault
      rec == [id |-> uuidv4(nextUuid), secret |-> secret, name |-> customName]
  IN
  /\ UNCHANGED others
  /\ nextUuid <= MaxUuid
  /\ Len(vault.secrets) < MaxSecrets
  /\ snap' = NoSnap /\ UNCHANGED <<files, ops>>
  /\ IF vault.exists /\ ~CanDecrypt(pw)
     THEN /\ last' = Outcome("add", "DecryptError")
          /\ UNCHANGED <<vault, nextUuid>>
     ELSE IF DuplicateValue(store.secrets, secret)
     THEN /\ last' = Outcome("add", "DuplicateValue")
          /\ UNCHANGED <<vault, nextUuid>>
     ELSE IF customName # NoName /\ ~ValidName(customName)
     THEN /\ last' = Outcome("add", "InvalidName")
          /\ UNCHANGED <<vault, nextUuid>>
     ELSE IF customName # NoName /\ nameExists(store.secrets, customName)
     THEN /\ last' = Outcome("add", "DuplicateName")
          /\ UNCHANGED <<vault, nextUuid>>
     ELSE /\ vault' = encryptVaultFile(pw, Append(store.secrets, rec), store.index)
          /\ nextUuid' = nextUuid + 1
          /\ last' = OutcomeId("add", "ok", rec.id)

-----------------------------------------------------------------------------
(* modify <name> <secret> *)

Modify(name, secret, pw) ==
  LET found == findSecretByName(vault.secrets, name) IN
  /\ UNCHANGED others
  /\ snap' = NoSnap /\ UNCHANGED <<files, nextUuid, ops>>
  /\ IF ~vault.exists
     THEN /\ last' = Outcome("modify", "NoVault")
          /\ UNCHANGED vault
     ELSE IF ~CanDecrypt(pw)
     THEN /\ last' = Outcome("modify", "DecryptError")
          /\ UNCHANGED vault
     ELSE IF found = 0
     THEN /\ last' = Outcome("modify", "NotFound")
          /\ UNCHANGED vault
     ELSE /\ vault' = encryptVaultFile(pw,
                        [vault.secrets EXCEPT ![found] =
                           [id |-> @.id, secret |-> secret, name |-> name]],
                        vault.index)
          /\ last' = OutcomeId("modify", "ok", vault.secrets[found].id)

-----------------------------------------------------------------------------
(* delete <identifier> *)

\* a delete that leaves the index as it is
PruneIndex_Untouched(index, id) == index

\* the map without the filter: emptied entries stay in the index
PruneIndex_KeepEmpty(index, id) ==
  IF ~index.defined THEN index
  ELSE LET NotId(x) == x # id
       IN [defined |-> TRUE,
           entries |-> [i \in 1..Len(index.entries) |->
                          [path |-> index.entries[i].path,
                           secretIds |-> SelectSeq(index.entries[i].secretIds, NotId)]]]

\* store.index.map(drop the id from secretIds).filter(secretIds.length > 0)
PruneIndex(index, id) ==
  IF ~index.defined THEN index
  ELSE LET NotId(x) == x # id
           mapped == [i \in 1..Len(index.entries) |->
                        [path |-> index.entries[i].path,
                         secretIds |-> SelectSeq(index.entries[i].secretIds, NotId)]]
           NonEmpty(e) == Len(e.secretIds) > 0
       IN [defined |-> TRUE, entries |-> SelectSeq(mapped, NonEmpty)]

Delete(identifier, pw) ==
  LET found == findSecretByIdentifier(vault.secrets, identifier)
      NotFound(r) == r.id # vault.secrets[found].id
  IN
  /\ UNCHANGED others
  /\ snap' = NoSnap /\ UNCHANGED <<files, nextUuid, ops>>
  /\ IF ~vault.exists
     THEN /\ last' = Outcome("delete", "NoVault")
          /\ UNCHANGED vault
     ELSE IF ~CanDecrypt(pw)
     THEN /\ last' = Outcome("delete", "DecryptError")
          /\ UNCHANGED vault
     ELSE IF found = 0
     THEN /\ last' = Outcome("delete", "NotFound")
          /\ UNCHANGED vault
     ELSE /\ vault' = encryptVaultFile(pw,
                        SelectSeq(vault.secrets, NotFound),
                        PruneIndex(vault.index, vault.secrets[found].id))
          /\ last' = [op |-> "delete", status |-> "ok", id |-> vault.secrets[found].id,
                       n |-> Len(vault.index.entries)
                             - Len(PruneIndex(vault.index, vault.secrets[found].id).entries),
                       arg |-> identifier]

-----------------------------------------------------------------------------
(* import <csvPath>: the rows are the parsed CSV lines [uuid, name, secret] *)

\* importedSecrets[key] = rec: a new key is appended, an existing key keeps
\* its position
Assign(secrets, rec) ==
  IF KeyIndex(secrets, rec.id) # 0
  THEN [secrets EXCEPT ![KeyIndex(secrets, rec.id)] = rec]
  ELSE Append(secrets, rec)

findDuplicateSecretValue(secrets, secretValue, exclude, excludeUuid) ==
  \E i \in 1..Len(secrets) :
    /\ ~(exclude /\ secrets[i].id = excludeUuid)
    /\ secrets[i].secret = secretValue

\* the loop over the CSV lines; u is the next identifier uuidv4 will return
RECURSIVE ImportRows(_, _, _, _)
ImportRows(rows, existingSecrets, importedSecrets, u) ==
  IF rows = <<>> THEN [imported |-> importedSecrets, next |-> u]
  ELSE
    LET row == Head(rows)
        byName == findSecretByName(existingSecrets, row.name)
        hasUuid == row.uuid # <<>>
        hasName == row.name # NoName
        fresh == ~hasUuid /\ ~(hasName /\ byName # 0)
        targetUuid == IF hasUuid THEN row.uuid
                      ELSE IF hasName /\ byName # 0 THEN existingSecrets[byName].id
                      ELSE uuidv4(u)
        isUpdate == IF hasUuid THEN KeyIndex(existingSecrets, targetUuid) # 0
                    ELSE hasName /\ byName # 0
        u2 == IF fresh THEN u + 1 ELSE u
        secretData == [id |-> targetUuid, secret |-> row.secret, name |-> row.name]
    IN
    IF \/ findDuplicateSecretValue(existingSecrets, row.secret, isUpdate, targetUuid)
       \/ findDuplicateSecretValue(importedSecrets, row.secret, isUpdate, targetUuid)
    THEN ImportRows(Tail(rows), existingSecrets, importedSecrets, u2)
    ELSE ImportRows(Tail(rows), existingSecrets, Assign(importedSecrets, secretData), u2)

\* { ...existingSecrets, ...importedSecrets }
RECURSIVE MergeSecrets(_, _)
MergeSecrets(existingSecrets, importedSecrets) ==
  IF importedSecrets = <<>> THEN existingSecrets
  ELSE MergeSecrets(Assign(existingSecrets, Head(importedSecrets)), Tail(importedSecrets))

Import(rows, pw) ==
  LET store == IF vault.exists THEN vault ELSE NoVault
      done == ImportRows(rows, store.secrets, <<>>, nextUuid)
      merged == MergeSecrets(store.secrets, done.imported)
  IN
  /\ UNCHANGED others
  /\ nextUuid + Len(rows) <= MaxUuid + 1
  /\ Len(vault.secrets) + Len(rows) <= MaxSecrets
  \* uuidv4 never returns an identifier that is already in use: the CSV
  \* names no identifier that is yet to be generated
  /\ \A i \in 1..Len(rows) : \A k \in nextUuid..MaxUuid : rows[i].uuid # uuidv4(k)
  /\ snap' = NoSnap /\ UNCHANGED <<files, ops>>
  /\ IF vault.exists /\ ~CanDecrypt(pw)
     THEN /\ last' = Outcome("import", "DecryptError")
          /\ UNCHANGED <<vault, nextUuid>>
     ELSE /\ vault' = encryptVaultFile(pw, merged, store.index)
          /\ nextUuid' = done.next
          /\ last' = Outcome("import", "ok")

-----------------------------------------------------------------------------
(* The working tree *)

AbsPath(f) == GitRoot \o RelPath[f]

\* path.join(gitRoot, p): the segments of p follow those of gitRoot, also
\* when p is itself an absolute path
JoinRoot(p) == GitRoot \o p

existsSync(p) == \E f \in AllNames : p = AbsPath(f) /\ files[f] # Absent

readFileSync(p) == files[CHOOSE f \in AllNames : p = AbsPath(f)]

\* git check-ignore <path>: the path, or a directory above it, is listed in
\* .gitignore, and the path is neither a tracked file nor a directory that
\* holds one
isGitIgnored(rel) ==
  /\ \E k \in 1..Len(rel) : SubSeq(rel, 1, k) \in gitignore
  /\ ~\E f \in tracked :
        Len(RelPath[f]) >= Len(rel) /\ SubSeq(RelPath[f], 1, Len(rel)) = rel

\* the walk without the ignore test
RECURSIVE WalkFrom_NoIgnoreTest(_)
WalkFrom_NoIgnoreTest(dir) ==
  LET entries == Listing(dir)
      Visit(i) ==
        LET full == dir \o <<entries[i]>> IN
        IF full \in Directories THEN WalkFrom_NoIgnoreTest(full)
        ELSE IF existsSync(GitRoot \o full) THEN << GitRoot \o full >>
        ELSE <<>>
      Upto[i \in 0..Len(entries)] ==
        IF i = 0 THEN <<>> ELSE Upto[i - 1] \o Visit(i)
  IN Upto[Len(entries)]

\* walkDir(dir, callback, gitRoot): the entries of dir in listing order; an
\* ignored entry is skipped, a directory is walked, a file is handed over
RECURSIVE WalkFrom(_)
WalkFrom(dir) ==
  LET entries == Listing(dir)
      Visit(i) ==
        LET full == dir \o <<entries[i]>> IN
        IF isGitIgnored(full) THEN <<>>
        ELSE IF full \in Directories THEN WalkFrom(full)
        ELSE IF existsSync(GitRoot \o full) THEN << GitRoot \o full >>
        ELSE <<>>
      Upto[i \in 0..Len(entries)] ==
        IF i = 0 THEN <<>> ELSE Upto[i - 1] \o Visit(i)
  IN Upto[Len(entries)]

\* walkDir(gitRoot, callback, gitRoot): the whole repository
walkDir == WalkFrom(<<>>)

\* getGitModifiedFiles: the changed files, existing regular files only
GitModified(changed) ==
  LET Changed(f) == f \in changed /\ files[f] # Absent
      names == SelectSeq(FileOrder, Changed)
  IN [i \in 1..Len(names) |-> AbsPath(names[i])]

-----------------------------------------------------------------------------
(* The pattern matcher *)

\* String.prototype.replace(/c/g, rep) for a one-character c
RECURSIVE ReplaceChar(_, _, _)
ReplaceChar(str, c, rep) ==
  IF str = <<>> THEN <<>>
  ELSE (IF Head(str) = c THEN rep ELSE <<Head(str)>>) \o ReplaceChar(Tail(str), c, rep)

\* pattern.replace(/\./g, '\\.').replace(/\*/g, '.*').replace(/\?/g, '.')
GlobToRegex(pattern) ==
  ReplaceChar(ReplaceChar(ReplaceChar(pattern, ".", <<"\\", ".">>),
                          "*", <<".", "*">>),
              "?", <<".">>)

\* the source of a regular expression read into its terms: each term is one
\* atom, "any" for an unescaped ".", else the character that must be there,
\* with how often it repeats, "1", "*" or "+".  ok is FALSE where
\* new RegExp throws: a "*" or "+" with nothing to repeat, a lone "\" at
\* the end
RECURSIVE ParseRegex(_, _)
ParseRegex(source, terms) ==
  IF source = <<>> THEN [ok |-> TRUE, terms |-> terms]
  ELSE LET c == Head(source) IN
       IF c = "\\"
       THEN IF Len(source) = 1 THEN [ok |-> FALSE, terms |-> terms]
            ELSE ParseRegex(Tail(Tail(source)),
                            Append(terms, [any |-> FALSE, char |-> source[2], rep |-> "1"]))
       ELSE IF c \in {"*", "+"}
       THEN IF terms = <<>> \/ terms[Len(terms)].rep # "1"
            THEN [ok |-> FALSE, terms |-> terms]
            ELSE ParseRegex(Tail(source),
                            [terms EXCEPT ![Len(terms)].rep = c])
       ELSE IF c = "."
       THEN ParseRegex(Tail(source), Append(terms, [any |-> TRUE, char |-> ".", rep |-> "1"]))
       ELSE ParseRegex(Tail(source), Append(terms, [any |-> FALSE, char |-> c, rep |-> "1"]))

\* regex.test(fileName) for ^terms$: the terms take up the whole name
RECURSIVE RegexTest(_, _)
RegexTest(terms, name) ==
  IF terms = <<>> THEN name = <<>>
  ELSE LET t == Head(terms)
           Fits(k) == \A i \in 1..k : t.any \/ name[i] = t.char
           least == IF t.rep = "*" THEN 0 ELSE 1
           most == IF t.rep = "1" THEN 1 ELSE Len(name)
       IN \E k \in least..most :
            /\ k <= Len(name)
            /\ Fits(k)
            /\ RegexTest(Tail(terms), SubSeq(name, k + 1, Len(name)))

\* String.prototype.trim
RECURSIVE Trim(_)
Trim(str) ==
  IF str # <<>> /\ Head(str) = " " THEN Trim(Tail(str))
  ELSE IF str # <<>> /\ str[Len(str)] = " " THEN Trim(SubSeq(str, 1, Len(str) - 1))
  ELSE str

\* String.prototype.split('|')
RECURSIVE SplitPipe(_, _, _)
SplitPipe(str, piece, pieces) ==
  IF str = <<>> THEN Append(pieces, piece)
  ELSE IF Head(str) = "|" THEN SplitPipe(Tail(str), <<>>, Append(pieces, piece))
  ELSE SplitPipe(Tail(str), Append(piece, Head(str)), pieces)

\* matchesPattern(filePath, pattern) on the base name: "true", "false", or
\* "SyntaxError" when new RegExp throws
RECURSIVE matchesPattern(_, _)
matchesPattern(fileName, pattern) ==
  IF pattern # <<>> /\ Head(pattern) = "(" /\ pattern[Len(pattern)] = ")"
  THEN LET patterns == SplitPipe(SubSeq(pattern, 2, Len(pattern) - 1), <<>>, <<>>)
           \* Array.prototype.some: the first alternative that answers true
           \* or throws ends the loop
           Some[i \in 1..(Len(patterns) + 1)] ==
             IF i > Len(patterns) THEN "false"
             ELSE LET r == matchesPattern(fileName, Trim(patterns[i])) IN
                  IF r = "false" THEN Some[i + 1] ELSE r
       IN Some[1]
  ELSE LET parsed == ParseRegex(GlobToRegex(pattern), <<>>) IN
       IF ~parsed.ok THEN "SyntaxError"
       ELSE IF RegexTest(parsed.terms, fileName) THEN "true" ELSE "false"

-----------------------------------------------------------------------------
(* index [path] [pattern] [--all] *)

NoPattern == <<>>

\* path.basename(filePath) of a path of the tree
BaseOfPath(filePath) == BaseName[CHOOSE f \in AllNames : filePath = AbsPath(f)]

\* the ids of the records whose value occurs in the content, catalogue order
SecretIdsIn(content, secrets) ==
  LET Hit(r) == Includes(content, r.secret)
      hits == SelectSeq(secrets, Hit)
  IN [i \in 1..Len(hits) |-> hits[i].id]

\* the push without the length test: every file read gets an entry
processFile_PushAlways(filePath, secrets) ==
  << [path |-> filePath,
      secretIds |-> SecretIdsIn(readFileSync(filePath), secrets)] >>

processFile(filePath, secrets) ==
  LET secretIds == SecretIdsIn(readFileSync(filePath), secrets) IN
  IF Len(secretIds) > 0
  THEN << [path |-> filePath, secretIds |-> secretIds] >>
  ELSE <<>>

\* if (pattern && !matchesPattern(filePath, pattern)) return
Filtered(filePath, pattern) ==
  pattern # NoPattern /\ matchesPattern(BaseOfPath(filePath), pattern) = "false"

RECURSIVE ProcessAll(_, _, _)
ProcessAll(paths, secrets, pattern) ==
  IF paths = <<>> THEN <<>>
  ELSE (IF Filtered(Head(paths), pattern) THEN <<>>
        ELSE processFile(Head(paths), secrets))
         \o ProcessAll(Tail(paths), secrets, pattern)

\* the files processFile is called on: specificFiles is used only when it
\* is given and not empty
ScanPaths(given, specificFiles) ==
  IF given /\ Len(specificFiles) > 0 THEN specificFiles ELSE walkDir

indexFiles(secrets, pattern, given, specificFiles) ==
  ProcessAll(ScanPaths(given, specificFiles), secrets, pattern)

\* new RegExp throws in matchesPattern for one of the files, which ends
\* indexFiles and the command
PatternThrows(pattern, given, specificFiles) ==
  /\ pattern # NoPattern
  /\ \E q \in Range(ScanPaths(given, specificFiles)) :
        matchesPattern(BaseOfPath(q), pattern) = "SyntaxError"

\* Map.set: an existing key keeps its position and takes the new value
MapSet(entries, e) ==
  IF \E i \in 1..Len(entries) : entries[i].path = e.path
  THEN [i \in 1..Len(entries) |-> IF entries[i].path = e.path THEN e ELSE entries[i]]
  ELSE Append(entries, e)

RECURSIVE MapSetAll(_, _)
MapSetAll(entries, new) ==
  IF new = <<>> THEN entries
  ELSE MapSetAll(MapSet(entries, Head(new)), Tail(new))

\* the incremental merge: overlay the new entries on the previous index by
\* path, then keep the entries whose path, joined to the root, exists
MergeIndex(previous, newIndexedFiles) ==
  LET existingMap == MapSetAll(MapSetAll(<<>>, previous), newIndexedFiles)
      StillThere(e) == existsSync(JoinRoot(e.path))
  IN SelectSeq(existingMap, StillThere)

IndexPattern(all, changed, pattern, pw) ==
  LET specificFiles == GitModified(changed)
      newIndexedFiles == indexFiles(vault.secrets, pattern, ~all, specificFiles)
      entries == IF ~all /\ vault.index.defined /\ Len(vault.index.entries) > 0
                 THEN MergeIndex(vault.index.entries, newIndexedFiles)
                 ELSE newIndexedFiles
  IN
  /\ UNCHANGED others
  /\ snap' = NoSnap /\ UNCHANGED <<files, nextUuid, ops>>
  /\ IF ~vault.exists
     THEN /\ last' = Outcome("index", "NoVault")
          /\ UNCHANGED vault
     ELSE IF ~CanDecrypt(pw)
     THEN /\ last' = Outcome("index", "DecryptError")
          /\ UNCHANGED vault
     ELSE IF PatternThrows(pattern, ~all, specificFiles)
     THEN /\ last' = Outcome("index", "Error")
          /\ UNCHANGED vault
     ELSE /\ vault' = encryptVaultFile(pw, vault.secrets,
                        [defined |-> TRUE, entries |-> entries])
          /\ last' = [Outcome(IF all THEN "indexAll" ELSE "index", "ok")
                        EXCEPT !.arg = pattern]

\* index [--all], no pattern given
IndexCmd(all, changed, pw) == IndexPattern(all, changed, NoPattern, pw)

-----------------------------------------------------------------------------
(* The user's own changes to the working tree *)

WriteFile(f, content) ==
  /\ UNCHANGED others
  /\ files' = [files EXCEPT ![f] = content]
  /\ last' = Outcome("write", "ok")
  /\ snap' = NoSnap /\ UNCHANGED <<vault, nextUuid, ops>>

RemoveFile(f) ==
  /\ UNCHANGED others
  /\ files[f] # Absent
  /\ files' = [files EXCEPT ![f] = Absent]
  /\ last' = Outcome("remove", "ok")
  /\ snap' = NoSnap /\ UNCHANGED <<vault, nextUuid, ops>>

-----------------------------------------------------------------------------
(* The substitution engine *)

\* Object.entries(secrets).forEach: each record in turn replaces every
\* occurrence of its value in what the earlier records left
RECURSIVE EncryptFold(_, _, _)
EncryptFold(content, secrets, changed) ==
  IF secrets = <<>> THEN [content |-> content, changed |-> changed]
  ELSE LET r == Head(secrets) IN
       IF Includes(content, r.secret)
       THEN EncryptFold(SplitJoin(content, r.secret, generatePlaceholder(r)),
                        Tail(secrets), TRUE)
       ELSE EncryptFold(content, Tail(secrets), changed)

encryptSecretsInFile(content, secrets) == EncryptFold(content, secrets, FALSE)

RECURSIVE DecryptFold(_, _, _)
DecryptFold(content, secrets, changed) ==
  IF secrets = <<>> THEN [content |-> content, changed |-> changed]
  ELSE LET r == Head(secrets) IN
       IF Includes(content, generatePlaceholder(r))
       THEN DecryptFold(SplitJoin(content, generatePlaceholder(r), r.secret),
                        Tail(secrets), TRUE)
       ELSE DecryptFold(content, Tail(secrets), changed)

decryptSecretsInFile(content, secrets) == DecryptFold(content, secrets, FALSE)

\* encrypt <file>: a path that is a file is encrypted in place, without the index
EncryptFile(f, pw) ==
  LET r == encryptSecretsInFile(files[f], vault.secrets) IN
  /\ UNCHANGED others
  /\ ops < MaxOps
  /\ files[f] # Absent
  /\ ops' = ops + 1
  /\ UNCHANGED <<vault, nextUuid>>
  /\ IF ~vault.exists
     THEN /\ last' = Outcome("encryptFile", "NoVault")
          /\ snap' = NoSnap
          /\ UNCHANGED files
     ELSE IF ~CanDecrypt(pw)
     THEN /\ last' = Outcome("encryptFile", "DecryptError")
          /\ snap' = NoSnap
          /\ UNCHANGED files
     ELSE /\ files' = IF r.changed THEN [files EXCEPT ![f] = r.content] ELSE files
          /\ last' = Outcome("encryptFile", "ok")
          /\ snap' = IF snap.stage = "encrypted" /\ snap.file = f
                     THEN [stage |-> "twice", file |-> f, orig |-> snap.orig,
                           before |-> files[f], after |-> files'[f],
                           first |-> snap.first, second |-> r.changed]
                     ELSE [stage |-> "encrypted", file |-> f, orig |-> files[f],
                           before |-> files[f], after |-> files'[f],
                           first |-> r.changed, second |-> FALSE]

\* encrypt <path>, the path being the vault file: a path that is a file is
\* encrypted in place, whichever file it is
EncryptSecretsPath(pw) ==
  LET r == encryptSecretsInFile(vault.text, vault.secrets) IN
  /\ UNCHANGED others
  /\ ops < MaxOps
  /\ ops' = ops + 1
  /\ snap' = NoSnap
  /\ UNCHANGED <<files, nextUuid>>
  /\ IF ~vault.exists
     THEN /\ last' = Outcome("encryptFile", "NoVault")
          /\ UNCHANGED vault
     ELSE IF ~CanDecrypt(pw)
     THEN /\ last' = Outcome("encryptFile", "DecryptError")
          /\ UNCHANGED vault
     ELSE /\ vault' = IF r.changed THEN [vault EXCEPT !.text = r.content] ELSE vault
          /\ last' = Outcome("encryptFile", "ok")

\* decrypt <file>
DecryptFile(f, pw) ==
  LET r == decryptSecretsInFile(files[f], vault.secrets) IN
  /\ UNCHANGED others
  /\ ops < MaxOps
  /\ files[f] # Absent
  /\ ops' = ops + 1
  /\ UNCHANGED <<vault, nextUuid>>
  /\ IF ~vault.exists
     THEN /\ last' = Outcome("decryptFile", "NoVault")
          /\ snap' = NoSnap
          /\ UNCHANGED files
     ELSE IF ~CanDecrypt(pw)
     THEN /\ last' = Outcome("decryptFile", "DecryptError")
          /\ snap' = NoSnap
          /\ UNCHANGED files
     ELSE /\ files' = IF r.changed THEN [files EXCEPT ![f] = r.content] ELSE files
          /\ last' = Outcome("decryptFile", "ok")
          /\ snap' = IF snap.stage = "encrypted" /\ snap.file = f
                     THEN [stage |-> "roundtrip", file |-> f, orig |-> snap.orig,
                           before |-> files[f], after |-> files'[f],
                           first |-> snap.first, second |-> r.changed]
                     ELSE NoSnap

\* the files an encrypt of the whole repository works on: the indexed files
\* that exist when the index is used, else every file the walk reaches
EncryptTargets(noindex) ==
  IF vault.index.defined /\ Len(vault.index.entries) > 0 /\ ~noindex
  THEN LET joined == [i \in 1..Len(vault.index.entries) |->
                        JoinRoot(vault.index.entries[i].path)]
       IN SelectSeq(joined, existsSync)
  ELSE walkDir

\* encrypt [--noindex]: the files are processed one after the other
EncryptCmd(noindex, pw) ==
  LET targets == Range(EncryptTargets(noindex))
      usesIndex == vault.index.defined /\ Len(vault.index.entries) > 0 /\ ~noindex
  IN
  /\ UNCHANGED others
  /\ ops < MaxOps
  /\ ops' = ops + 1
  /\ snap' = NoSnap
  /\ UNCHANGED <<vault, nextUuid>>
  /\ IF ~vault.exists
     THEN /\ last' = Outcome("encrypt", "NoVault")
          /\ UNCHANGED files
     ELSE IF ~CanDecrypt(pw)
     THEN /\ last' = Outcome("encrypt", "DecryptError")
          /\ UNCHANGED files
     ELSE /\ files' = [f \in AllNames |->
                         IF AbsPath(f) \in targets
                         THEN encryptSecretsInFile(files[f], vault.secrets).content
                         ELSE files[f]]
          /\ last' = Outcome(IF usesIndex THEN "encryptIndexed" ELSE "encryptScan", "ok")

\* the files a decrypt of the whole repository works on: the indexed files
\* that exist whenever there is an index, --noindex or not, else every file
\* the walk reaches
DecryptTargets(noindex) ==
  IF vault.index.defined /\ Len(vault.index.entries) > 0
  THEN LET joined == [i \in 1..Len(vault.index.entries) |->
                        JoinRoot(vault.index.entries[i].path)]
       IN SelectSeq(joined, existsSync)
  ELSE walkDir

\* decrypt [--noindex]
DecryptCmd(noindex, pw) ==
  LET targets == Range(DecryptTargets(noindex))
      usesIndex == vault.index.defined /\ Len(vault.index.entries) > 0
  IN
  /\ UNCHANGED others
  /\ ops < MaxOps
  /\ ops' = ops + 1
  /\ snap' = NoSnap
  /\ UNCHANGED <<vault, nextUuid>>
  /\ IF ~vault.exists
     THEN /\ last' = Outcome("decrypt", "NoVault")
          /\ UNCHANGED files
     ELSE IF ~CanDecrypt(pw)
     THEN /\ last' = Outcome("decrypt", "DecryptError")
          /\ UNCHANGED files
     ELSE /\ files' = [f \in AllNames |->
                         IF AbsPath(f) \in targets
                         THEN decryptSecretsInFile(files[f], vault.secrets).content
                         ELSE files[f]]
          /\ last' = Outcome(IF usesIndex THEN "decryptIndexed" ELSE "decryptScan", "ok")

-----------------------------------------------------------------------------
(* The redacted-file path transforms, on base names *)

Redacted == <<".", "r", "e", "d", "a", "c", "t", "e", "d">>

\* position of the last "." of the name, 0 if it has none
LastDot(name) ==
  IF \E i \in 1..Len(name) : name[i] = "."
  THEN CHOOSE i \in 1..Len(name) :
         name[i] = "." /\ \A j \in (i + 1)..Len(name) : name[j] # "."
  ELSE 0

\* path.extname: from the last "." on; empty when there is no ".", when the
\* only "." leads the name, and for ".."
extname(name) ==
  IF LastDot(name) <= 1 \/ name = <<".", ".">> THEN <<>>
  ELSE SubSeq(name, LastDot(name), Len(name))

\* path.basename(name, ext)
basename(name, ext) ==
  IF ext = <<>> THEN name
  ELSE IF ext = name THEN <<>>
  ELSE SubSeq(name, 1, Len(name) - Len(ext))

\* a transform that gives the name back: the redacted content would go to
\* the file it was read from
getRedactedFilePath_SameName(name) == name

getRedactedFilePath(name) ==
  basename(name, extname(name)) \o Redacted \o extname(name)

\* nameWithoutExt.replace(/\.redacted$/, '')
StripRedacted(name) ==
  IF Len(name) >= Len(Redacted)
     /\ SubSeq(name, Len(name) - Len(Redacted) + 1, Len(name)) = Redacted
  THEN SubSeq(name, 1, Len(name) - Len(Redacted))
  ELSE name

getOriginalFilePath(name) ==
  StripRedacted(basename(name, extname(name))) \o extname(name)

\* basename.includes('.redacted.')
isRedactedFile(name) == Includes(name, Redacted \o <<".">>)

PathChars == { "a", "b", "." }

\* the file names the transforms are tried on: every name of up to
\* MaxNameLen characters except "." and "..", and the names of the tree
PathNames ==
  (SeqsUpTo(PathChars, MaxNameLen) \ { <<>>, <<".">>, <<".", ".">> })
    \cup { BaseName[f] : f \in AllNames }

RedactPath(name) ==
  /\ conv.stage = "none"
  /\ conv' = [stage |-> "redacted", name |-> name,
              redacted |-> getRedactedFilePath(name), original |-> <<>>]
  /\ last' = Outcome("redactPath", "ok")
  /\ UNCHANGED <<vault, files, nextUuid, snap, ops, gitignore, tracked, procs, glob>>

OriginalPath ==
  /\ conv.stage = "redacted"
  /\ conv' = [conv EXCEPT !.stage = "restored",
                          !.original = getOriginalFilePath(conv.redacted)]
  /\ last' = Outcome("originalPath", "ok")
  /\ UNCHANGED <<vault, files, nextUuid, snap, ops, gitignore, tracked, procs, glob>>

-----------------------------------------------------------------------------
(* redact <file> *)

\* the file of the tree that the redacted path of f names: the same
\* directory, the redacted base name
RedactedSibling(f) ==
  CHOOSE g \in AllNames :
    /\ Len(RelPath[g]) = Len(RelPath[f])
    /\ SubSeq(RelPath[g], 1, Len(RelPath[g]) - 1) = SubSeq(RelPath[f], 1, Len(RelPath[f]) - 1)
    /\ BaseName[g] = getRedactedFilePath(BaseName[f])

\* redactSecretsInFile: the substitution of encrypt, applied to what is read
\* from the file, and the path the result goes to; nothing is found when no
\* value occurs
redactSecretsInFile(f, secrets) ==
  LET r == EncryptFold(files[f], secrets, FALSE) IN
  [found |-> r.changed, content |-> r.content, redactedPath |-> RedactedSibling(f)]

\* a result that never reports "unchanged"
RedactStatus_NeverUnchanged(existing, content) ==
  IF existing = Absent THEN "created" ELSE "updated"

\* RedactResult: created when the redacted file is absent, unchanged when it
\* holds the content already, updated otherwise
RedactStatus(existing, content) ==
  IF existing = Absent THEN "created"
  ELSE IF existing = content THEN "unchanged"
  ELSE "updated"

\* the git side effects without the test of result.unchanged
UpdatesGit_AlsoUnchanged(status, nogitignore) == ~nogitignore

\* !result.unchanged && !cmdOptions.nogitignore
UpdatesGit(status, nogitignore) == status # "unchanged" /\ ~nogitignore

\* addToGitignore: the relative path becomes a line of .gitignore unless an
\* uncommented line is that path already
addToGitignore(rel) == gitignore \cup {rel}

\* removeFileFromGit: a tracked file leaves the git index and stays on disk
removeFileFromGit(f) == tracked \ {f}

\* redact <file>, the path being a file; last.arg is the file's path
RedactFile(f, nogitignore, nogitremove, pw) ==
  LET result == redactSecretsInFile(f, vault.secrets)
      status == RedactStatus(files[result.redactedPath], result.content)
  IN
  /\ UNCHANGED <<conv, procs, glob>>
  /\ ops < MaxOps
  /\ files[f] # Absent
  /\ ops' = ops + 1
  /\ snap' = NoSnap
  /\ UNCHANGED <<vault, nextUuid>>
  /\ IF ~vault.exists
     THEN /\ last' = Outcome("redact", "NoVault")
          /\ UNCHANGED <<files, gitignore, tracked>>
     ELSE IF ~CanDecrypt(pw)
     THEN /\ last' = Outcome("redact", "DecryptError")
          /\ UNCHANGED <<files, gitignore, tracked>>
     ELSE IF isRedactedFile(BaseName[f])
     THEN /\ last' = Outcome("redact", "skipped")
          /\ UNCHANGED <<files, gitignore, tracked>>
     ELSE IF ~result.found
     THEN /\ last' = Outcome("redact", "nothing")
          /\ UNCHANGED <<files, gitignore, tracked>>
     ELSE /\ files' = IF status = "unchanged" THEN files
                      ELSE [files EXCEPT ![result.redactedPath] = result.content]
          /\ gitignore' = IF UpdatesGit(status, nogitignore)
                          THEN addToGitignore(RelPath[f]) ELSE gitignore
          /\ tracked' = IF UpdatesGit(status, nogitignore) /\ ~nogitremove
                        THEN removeFileFromGit(f) ELSE tracked
          /\ last' = [Outcome("redact", status) EXCEPT !.arg = RelPath[f]]

-----------------------------------------------------------------------------
(* unredact <file> *)

\* the file of the tree that the original path of f names: the same
\* directory, the base name without ".redacted"
OriginalSibling(f) ==
  CHOOSE g \in AllNames :
    /\ Len(RelPath[g]) = Len(RelPath[f])
    /\ SubSeq(RelPath[g], 1, Len(RelPath[g]) - 1) = SubSeq(RelPath[f], 1, Len(RelPath[f]) - 1)
    /\ BaseName[g] = getOriginalFilePath(BaseName[f])

\* unredactSecretsInFile: the substitution of decrypt, applied to what is
\* read from the redacted file, and the path the result goes to
unredactSecretsInFile(f, secrets) ==
  LET r == DecryptFold(files[f], secrets, FALSE) IN
  [found |-> r.changed, content |-> r.content, originalPath |-> OriginalSibling(f)]

\* unredact <file>, the path being a file; last.arg is the file's path
UnredactFile(f, pw) ==
  LET result == unredactSecretsInFile(f, vault.secrets) IN
  /\ UNCHANGED others
  /\ ops < MaxOps
  /\ files[f] # Absent
  /\ ops' = ops + 1
  /\ snap' = NoSnap
  /\ UNCHANGED <<vault, nextUuid>>
  /\ IF ~vault.exists
     THEN /\ last' = Outcome("unredact", "NoVault")
          /\ UNCHANGED files
     ELSE IF ~CanDecrypt(pw)
     THEN /\ last' = Outcome("unredact", "DecryptError")
          /\ UNCHANGED files
     ELSE IF ~isRedactedFile(BaseName[f])
     THEN /\ last' = Outcome("unredact", "skipped")
          /\ UNCHANGED files
     ELSE IF ~result.found
     THEN /\ last' = Outcome("unredact", "nothing")
          /\ UNCHANGED files
     ELSE /\ files' = [files EXCEPT ![result.originalPath] = result.content]
          /\ last' = [Outcome("unredact", "ok") EXCEPT !.arg = RelPath[f]]

-----------------------------------------------------------------------------
(* The catalogue commands: Spec *)

RowUuids == { <<>>, <<"1">>, <<"9">> }

RowNames == { NoName, <<"d", "b">> }

Rows == [uuid : RowUuids, name : RowNames, secret : SecretValues]

\* the password a new vault is created with is called "pw"
PasswordInputs == IF vault.exists THEN Passwords ELSE { "pw" }

Next ==
  \/ \E n \in NameInputs \cup {NoName}, s \in SecretValues, pw \in PasswordInputs :
       Add(n, s, pw)
  \/ \E n \in NameInputs, s \in SecretValues, pw \in Passwords :
       Modify(n, s, pw)
  \/ \E x \in NameInputs \cup {uuidv4(i) : i \in 1..MaxUuid}, pw \in Passwords :
       Delete(x, pw)
  \/ \E rows \in SeqsUpTo(Rows, MaxRows), pw \in PasswordInputs :
       Import(rows, pw)
  \/ \E all \in BOOLEAN, changed \in SUBSET FileNames, pw \in Passwords :
       IndexCmd(all, changed, pw)

Spec == Init /\ [][Next]_vars

-----------------------------------------------------------------------------
(* Substitution over a working tree: SpecFiles *)

InitFiles ==
  /\ vault = NoVault
  /\ files \in { TreeOf(given) : given \in [FileNames -> Contents] }
  /\ nextUuid = 1
  /\ last = Outcome("init", "ok")
  /\ snap = NoSnap
  /\ ops = 0
  /\ gitignore = {}
  /\ tracked = FileNames
  /\ conv = NoConv
  /\ procs = NoProcs
  /\ glob = NoGlob

NextFiles ==
  \/ \E n \in {NoName, <<"d", "b">>}, s \in SecretValues : Add(n, s, "pw")
  \/ \E f \in FileNames, pw \in Passwords : EncryptFile(f, pw)
  \/ \E f \in FileNames, pw \in Passwords : DecryptFile(f, pw)
  \/ \E noindex \in BOOLEAN, pw \in Passwords : EncryptCmd(noindex, pw)
  \/ IndexCmd(TRUE, {}, "pw")

SpecFiles == InitFiles /\ [][NextFiles]_vars

-----------------------------------------------------------------------------
(* The earlier command-line front end *)

\* add [name] <secret>: the password is taken as given, and a vault that
\* cannot be decrypted is treated like a missing one
AddCli(customName, secret, pw) ==
  LET store == IF CanDecrypt(pw) THEN vault ELSE NoVault
      rec == [id |-> uuidv4(nextUuid), secret |-> secret, name |-> customName]
  IN
  /\ UNCHANGED others
  /\ nextUuid <= MaxUuid
  /\ Len(store.secrets) < MaxSecrets
  /\ snap' = NoSnap /\ UNCHANGED <<files, ops>>
  /\ IF DuplicateValue(store.secrets, secret)
     THEN /\ last' = Outcome("add", "DuplicateValue")
          /\ UNCHANGED <<vault, nextUuid>>
     ELSE IF customName # NoName /\ ~ValidName(customName)
     THEN /\ last' = Outcome("add", "InvalidName")
          /\ UNCHANGED <<vault, nextUuid>>
     ELSE IF customName # NoName /\ nameExists(store.secrets, customName)
     THEN /\ last' = Outcome("add", "DuplicateName")
          /\ UNCHANGED <<vault, nextUuid>>
     ELSE /\ vault' = encryptVaultFile(pw, Append(store.secrets, rec), store.index)
          /\ nextUuid' = nextUuid + 1
          /\ last' = OutcomeId("add", "ok", rec.id)

\* modify <name> <secret>: a vault that cannot be loaded ends the command
ModifyCli(name, secret, pw) ==
  LET found == findSecretByName(vault.secrets, name) IN
  /\ UNCHANGED others
  /\ snap' = NoSnap /\ UNCHANGED <<files, nextUuid, ops>>
  /\ IF ~CanDecrypt(pw)
     THEN /\ last' = Outcome("modify", "DecryptError")
          /\ UNCHANGED vault
     ELSE IF found = 0
     THEN /\ last' = Outcome("modify", "NotFound")
          /\ UNCHANGED vault
     ELSE /\ vault' = encryptVaultFile(pw,
                        [vault.secrets EXCEPT ![found] =
                           [id |-> @.id, secret |-> secret, name |-> name]],
                        vault.index)
          /\ last' = OutcomeId("modify", "ok", vault.secrets[found].id)

NextCli ==
  \/ \E n \in NameInputs \cup {NoName}, s \in SecretValues, pw \in PasswordInputs :
       AddCli(n, s, pw)
  \/ \E n \in NameInputs, s \in SecretValues, pw \in Passwords :
       ModifyCli(n, s, pw)

SpecCli == Init /\ [][NextCli]_vars

-----------------------------------------------------------------------------
(* Indexing a changing working tree: SpecIndex *)

NextIndex ==
  \/ \E s \in SecretValues : Add(NoName, s, "pw")
  \/ \E all \in BOOLEAN, changed \in SUBSET FileNames, pw \in Passwords :
       IndexCmd(all, changed, pw)
  \/ \E f \in FileNames, content \in Contents : WriteFile(f, content)
  \/ \E f \in FileNames : RemoveFile(f)

SpecIndex == Init /\ [][NextIndex]_vars

-----------------------------------------------------------------------------
(* Inputs of the catalogue commands, for the properties below *)

AddNames == NameInputs \cup {NoName}

Identifiers == NameInputs \cup {uuidv4(i) : i \in 1..MaxUuid}

HasValue(secrets, s) == \E r \in Range(secrets) : r.secret = s

HasName(secrets, n) == \E r \in Range(secrets) : r.name = n

HasId(secrets, x) == \E r \in Range(secrets) : r.id = x

-----------------------------------------------------------------------------
(* Properties of the catalogue, checked under Spec *)

\* C4: no two records of the persisted catalogue have the same secret value
C4_UniqueValues ==
  \A i, j \in 1..Len(vault.secrets) :
    i # j => vault.secrets[i].secret # vault.secrets[j].secret

\* C5: no two records have the same placeholder identifier (display name if
\* set, otherwise id)
C5_UniquePlaceholderIds ==
  \A i, j \in 1..Len(vault.secrets) :
    i # j => getPlaceholderId(vault.secrets[i]) # getPlaceholderId(vault.secrets[j])

\* C6: an add whose value equals the value of a record already in the
\* catalogue fails with the duplicate-value error, creates no record and
\* leaves the persisted vault exactly as it was
C6_DuplicateAddRejected ==
  [][ last'.op = "add" =>
        \A n \in AddNames, s \in SecretValues, pw \in Passwords :
          (Add(n, s, pw) /\ CanDecrypt(pw) /\ HasValue(vault.secrets, s))
            => (last'.status = "DuplicateValue" /\ vault' = vault) ]_vars

C6_Witness ==
  /\ last.op = "add" /\ last.status = "DuplicateValue"
  /\ Len(vault.secrets) = MaxSecrets - 1

\* C7: an add with a name outside the character class or a name already
\* taken, a modify of a name no record has, and a delete of an identifier
\* that resolves to no record all fail and leave the persisted vault,
\* records and index, exactly as it was
C7_FailedValidationWritesNothing ==
  [][ /\ last'.op = "add" =>
           \A n \in NameInputs, s \in SecretValues, pw \in Passwords :
             (/\ Add(n, s, pw)
              /\ (\E i \in 1..Len(n) : n[i] \notin NameChars) \/ HasName(vault.secrets, n))
               => (last'.status # "ok" /\ vault' = vault)
      /\ last'.op = "modify" =>
           \A n \in NameInputs, s \in SecretValues, pw \in Passwords :
             (Modify(n, s, pw) /\ ~HasName(vault.secrets, n))
               => (last'.status # "ok" /\ vault' = vault)
      /\ last'.op = "delete" =>
           \A x \in Identifiers, pw \in Passwords :
             (Delete(x, pw) /\ ~HasName(vault.secrets, x) /\ ~HasId(vault.secrets, x))
               => (last'.status # "ok" /\ vault' = vault) ]_vars

C7_Witness ==
  /\ last.status \in {"InvalidName", "DuplicateName", "NotFound"}
  /\ Len(vault.secrets) > 0
  /\ vault.index.defined /\ Len(vault.index.entries) > 0

\* C9: after a delete, the deleted id is in no entry's secretIds, every
\* other id of every entry is still there under the same path, and the
\* entries that held only the deleted id are gone
C9_DeletePrunesIndex ==
  [][ (last'.op = "delete" /\ last'.status = "ok") =>
        LET id == last'.id
            old == vault.index.entries
            new == vault'.index.entries
        IN /\ vault'.index.defined = vault.index.defined
           /\ \A j \in 1..Len(new) : id \notin Range(new[j].secretIds)
           /\ \A j \in 1..Len(new) : \E i \in 1..Len(old) : old[i].path = new[j].path
           /\ \A i \in 1..Len(old) :
                LET kept == Range(old[i].secretIds) \ {id} IN
                IF kept = {}
                THEN \A j \in 1..Len(new) : new[j].path # old[i].path
                ELSE \E j \in 1..Len(new) :
                       /\ new[j].path = old[i].path
                       /\ Range(new[j].secretIds) = kept ]_vars

C9_Witness ==
  /\ last.op = "delete" /\ last.status = "ok" /\ last.n > 0
  /\ Len(vault.index.entries) > 0

-----------------------------------------------------------------------------
(* Properties of the substitution engine, checked under SpecFiles *)

NoValueInsideAnother(secrets) ==
  \A i, j \in 1..Len(secrets) :
    i # j => ~Includes(secrets[j].secret, secrets[i].secret)

ContainsSecret(content, secrets) ==
  \E r \in Range(secrets) : Includes(content, r.secret)

\* C1: when no secret value is a substring of another, an encrypt-in-place
\* followed by a decrypt-in-place with the same catalogue leaves the file
\* with its original content
C1_RoundTrip ==
  (snap.stage = "roundtrip" /\ NoValueInsideAnother(vault.secrets))
    => files[snap.file] = snap.orig

\* C2: on a file that contains a catalogued secret value the first
\* encrypt-in-place reports changed, and a second one reports unchanged and
\* leaves the content of the first
C2_EncryptIdempotent ==
  /\ (snap.stage = "encrypted" /\ ContainsSecret(snap.orig, vault.secrets))
       => snap.first
  /\ (snap.stage = "twice" /\ ContainsSecret(snap.orig, vault.secrets))
       => (snap.first /\ ~snap.second /\ files[snap.file] = snap.before)

\* C3: after an encrypt run that scanned the whole tree, no file of the
\* tree contains a catalogued secret value
C3_NoSecretLeftAfterEncrypt ==
  (last.op = "encryptScan" /\ last.status = "ok")
    => \A f \in AllNames :
         files[f] # Absent => ~ContainsSecret(files[f], vault.secrets)

-----------------------------------------------------------------------------
(* Decryption failure, checked under SpecCli *)

\* C8: a command given a password that does not decrypt the existing vault
\* ends without writing the vault; in particular add does not replace the
\* vault by a fresh catalogue that holds only the new record
C8_DecryptFailureWritesNothing ==
  [][ (vault.exists /\ last'.op \in {"add", "modify"}) =>
        \A pw \in Passwords :
          ( ~CanDecrypt(pw)
            /\ \/ \E n \in AddNames, s \in SecretValues : AddCli(n, s, pw)
               \/ \E n \in NameInputs, s \in SecretValues : ModifyCli(n, s, pw) )
            => vault' = vault ]_vars

-----------------------------------------------------------------------------
(* The incremental merge, checked under SpecIndex *)

\* C10: an incremental re-index over a non-empty previous index keeps the
\* entry of every file outside the changed set that still exists, and gives
\* every changed file that contains a secret value its freshly scanned entry
C10_IncrementalMergePreserves ==
  [][ (last'.op = "index" /\ last'.status = "ok"
       /\ vault.index.defined /\ Len(vault.index.entries) > 0) =>
        \A changed \in SUBSET FileNames, pw \in Passwords :
          IndexCmd(FALSE, changed, pw) =>
            /\ \A b \in FileNames \ changed :
                 files[b] # Absent =>
                   \A e \in Range(vault.index.entries) :
                     e.path = AbsPath(b) => e \in Range(vault'.index.entries)
            /\ \A a \in changed :
                 (files[a] # Absent /\ ContainsSecret(files[a], vault.secrets)) =>
                   [path |-> AbsPath(a),
                    secretIds |-> SecretIdsIn(files[a], vault.secrets)]
                     \in Range(vault'.index.entries) ]_vars

-----------------------------------------------------------------------------
(* The persisted index *)

\* C11: an incremental re-index over a non-empty previous index drops an
\* entry only if its file no longer exists on disk: every previous entry
\* whose file exists still has an entry afterwards, whatever the file holds
C11_IncrementalDropsOnlyMissing ==
  [][ (last'.op = "index" /\ last'.status = "ok"
       /\ vault.index.defined /\ Len(vault.index.entries) > 0) =>
        \A e \in Range(vault.index.entries) :
          existsSync(e.path) =>
            \E n \in Range(vault'.index.entries) : n.path = e.path ]_vars

\* the path of a file relative to the repository root
RelativePaths == { RelPath[f] : f \in AllNames }

\* C12: every path stored in the persisted index is relative to the
\* repository root, never absolute
C12_IndexPathsRelative ==
  vault.index.defined =>
    \A e \in Range(vault.index.entries) : e.path \in RelativePaths

\* C13: every entry of the persisted index has a non-empty secretIds
C13_NoEmptyIndexEntry ==
  vault.index.defined =>
    \A e \in Range(vault.index.entries) : Len(e.secretIds) > 0

C13_Witness ==
  /\ last.op = "indexAll" /\ last.status = "ok"
  /\ Len(vault.index.entries) > 0
  /\ \E f \in FileNames :
       files[f] # Absent /\ ~ContainsSecret(files[f], vault.secrets)

-----------------------------------------------------------------------------
(* Lookup by identifier *)

\* C19: when the identifier given to delete is the display name of one
\* record and the id of a different record, the record with that name is
\* the one removed and the record with that id stays in the catalogue
C19_NameWinsOverId ==
  [][ (last'.op = "delete" /\ last'.status = "ok") =>
        LET x == last'.arg IN
        (\E i, j \in 1..Len(vault.secrets) :
           i # j /\ vault.secrets[i].name = x /\ vault.secrets[j].id = x)
          => /\ \E i \in 1..Len(vault.secrets) :
                  /\ vault.secrets[i].name = x
                  /\ vault.secrets[i].id = last'.id
                  /\ vault'.secrets =
                       [k \in 1..(Len(vault.secrets) - 1) |->
                          IF k < i THEN vault.secrets[k] ELSE vault.secrets[k + 1]]
             /\ HasId(vault'.secrets, x) ]_vars

C19_Witness ==
  /\ last.op = "delete" /\ last.status = "ok"
  /\ last.arg # last.id
  /\ HasId(vault.secrets, last.arg)

-----------------------------------------------------------------------------
(* The path transforms, checked under SpecPaths *)

NextPaths ==
  \/ \E name \in PathNames : RedactPath(name)
  \/ OriginalPath

SpecPaths == Init /\ [][NextPaths]_vars

\* C17: the unredact path transform applied to the redact path transform of
\* a file name gives back that name, with or without an extension
C17_PathRoundTrip ==
  conv.stage = "restored" => conv.original = conv.name

-----------------------------------------------------------------------------
(* Redaction, checked under SpecRedact *)

RedactFiles == FileNames \cup { "br" }

RedactContents == { <<"q", "z", "e">>, <<"n", "o">> }

NextRedact ==
  \/ \E s \in SecretValues : Add(NoName, s, "pw")
  \/ \E f \in RedactFiles, nogitignore \in BOOLEAN, nogitremove \in BOOLEAN,
        pw \in Passwords : RedactFile(f, nogitignore, nogitremove, pw)
  \/ \E f \in FileNames, content \in RedactContents : WriteFile(f, content)

SpecRedact == Init /\ [][NextRedact]_vars

RedactWrote == { "created", "updated", "unchanged" }

FileOfPath(rel) == CHOOSE f \in AllNames : RelPath[f] = rel

\* C14: a redact that finds a secret value in a file leaves that file with
\* the bytes it had, and afterwards the sibling name.redacted.ext holds the
\* file's content with every value replaced by its placeholder
C14_RedactLeavesOriginal ==
  [][ (last'.op = "redact" /\ last'.status \in RedactWrote) =>
        LET f == FileOfPath(last'.arg)
            name == BaseName[f]
            d == LastDot(name)
            sibling == IF d <= 1 THEN name \o Redacted
                       ELSE SubSeq(name, 1, d - 1) \o Redacted
                              \o SubSeq(name, d, Len(name))
        IN
        /\ files'[f] = files[f]
        /\ \E g \in AllNames \ {f} :
             /\ BaseName[g] = sibling
             /\ files'[g] = EncryptFold(files[f], vault.secrets, FALSE).content
             /\ \A h \in AllNames \ {g} : files'[h] = files[h] ]_vars

C14_Witness ==
  /\ last.op = "redact" /\ last.status = "created"
  /\ last.arg = RelPath["b"]
  /\ files["br"] # Absent /\ files["br"] # files["b"]

-----------------------------------------------------------------------------
(* The walk and the ignore test, checked under SpecWalk *)

IgnorePaths == { <<"a">>, <<"d">>, <<"d", "c">> }

\* the user lists a path in .gitignore
IgnorePath(rel) ==
  /\ rel \notin gitignore
  /\ gitignore' = gitignore \cup {rel}
  /\ last' = Outcome("ignore", "ok")
  /\ snap' = NoSnap
  /\ UNCHANGED <<vault, files, nextUuid, ops, tracked, conv, procs, glob>>

\* git rm --cached <file>
GitRm(f) ==
  /\ f \in tracked
  /\ tracked' = tracked \ {f}
  /\ last' = Outcome("gitrm", "ok")
  /\ snap' = NoSnap
  /\ UNCHANGED <<vault, files, nextUuid, ops, gitignore, conv, procs, glob>>

\* git add <file>, which refuses an ignored path
GitAdd(f) ==
  /\ f \notin tracked
  /\ files[f] # Absent
  /\ ~isGitIgnored(RelPath[f])
  /\ tracked' = tracked \cup {f}
  /\ last' = Outcome("gitadd", "ok")
  /\ snap' = NoSnap
  /\ UNCHANGED <<vault, files, nextUuid, ops, gitignore, conv, procs, glob>>

\* the tree of Init with the file of the subdirectory present, not yet added
InitWalk ==
  /\ vault = NoVault
  /\ files = [f \in AllNames |->
                IF f = "a" THEN <<"k", "=", "q">>
                ELSE IF f \in {"b", "c"} THEN <<"q", "z", "e">>
                ELSE Absent]
  /\ nextUuid = 1
  /\ last = Outcome("init", "ok")
  /\ snap = NoSnap
  /\ ops = 0
  /\ gitignore = {}
  /\ tracked = FileNames
  /\ conv = NoConv
  /\ procs = NoProcs
  /\ glob = NoGlob

WalkFiles == { "a", "c" }

NextWalk ==
  \/ \E s \in { <<"q">>, <<"q", "z">> } : Add(NoName, s, "pw")
  \/ \E noindex \in BOOLEAN, pw \in Passwords : EncryptCmd(noindex, pw)
  \/ IndexCmd(TRUE, {}, "pw")
  \/ \E rel \in IgnorePaths : IgnorePath(rel)
  \/ \E f \in WalkFiles : GitRm(f)
  \/ \E f \in WalkFiles : GitAdd(f)

SpecWalk == InitWalk /\ [][NextWalk]_vars

\* the ignore test is true for the path or for a directory above it
UnderIgnored(rel) == \E k \in 1..Len(rel) : isGitIgnored(SubSeq(rel, 1, k))

\* C18: the walk hands over no file for which the ignore test is true and
\* no file beneath a directory for which it is true, and an encrypt run over
\* the tree leaves every such file with the bytes it had
C18_WalkSkipsIgnored ==
  [][ /\ \A f \in AllNames :
           AbsPath(f) \in Range(walkDir) => ~UnderIgnored(RelPath[f])
      /\ (last'.op \in {"encryptScan", "encryptIndexed"} /\ last'.status = "ok") =>
           \A f \in AllNames : UnderIgnored(RelPath[f]) => files'[f] = files[f] ]_vars

C18_Witness ==
  /\ last.op = "encryptScan" /\ last.status = "ok"
  /\ isGitIgnored(<<"d">>)
  /\ ContainsSecret(files["c"], vault.secrets)
  /\ Includes(files["b"], PlaceholderPrefix)

-----------------------------------------------------------------------------
(* Two invocations of add at once, checked under SpecRace *)

Procs == DOMAIN NoProcs

Other(p) == CHOOSE q \in Procs : q # p

\* add up to the await of encryptVaultFile: the vault is read and decrypted,
\* the checks run on the copy, and the new record is put into the copy
AddLoad(p, customName, secret, pw) ==
  LET store == IF vault.exists THEN vault ELSE NoVault
      rec == [id |-> uuidv4(nextUuid), secret |-> secret, name |-> customName]
      q == Other(p)
      both == procs[q].pc = "loaded"
  IN
  /\ procs[p].pc = "idle"
  /\ nextUuid <= MaxUuid
  /\ Len(vault.secrets) < MaxSecrets
  /\ snap' = NoSnap
  /\ UNCHANGED <<vault, files, ops, gitignore, tracked, conv, glob>>
  /\ IF vault.exists /\ ~CanDecrypt(pw)
     THEN /\ last' = Outcome("addLoad", "DecryptError")
          /\ UNCHANGED <<procs, nextUuid>>
     ELSE IF DuplicateValue(store.secrets, secret)
     THEN /\ last' = Outcome("addLoad", "DuplicateValue")
          /\ UNCHANGED <<procs, nextUuid>>
     ELSE IF customName # NoName /\ ~ValidName(customName)
     THEN /\ last' = Outcome("addLoad", "InvalidName")
          /\ UNCHANGED <<procs, nextUuid>>
     ELSE IF customName # NoName /\ nameExists(store.secrets, customName)
     THEN /\ last' = Outcome("addLoad", "DuplicateName")
          /\ UNCHANGED <<procs, nextUuid>>
     ELSE /\ procs' = [procs EXCEPT
                         ![p] = [pc |-> "loaded",
                                 secrets |-> Append(store.secrets, rec),
                                 index |-> store.index, pw |-> pw,
                                 id |-> rec.id, overlap |-> both],
                         ![q] = [@ EXCEPT !.overlap = @ \/ both]]
          /\ nextUuid' = nextUuid + 1
          /\ last' = OutcomeId("addLoad", "ok", rec.id)

\* a store that puts the new record into the vault as it is on disk now
StoredBlob_Reloaded(p) ==
  encryptVaultFile(procs[p].pw,
                   Append(vault.secrets, procs[p].secrets[Len(procs[p].secrets)]),
                   vault.index)

\* encryptVaultFile(secretsPath, password, JSON.stringify(store)): the copy
\* the invocation holds replaces the vault
StoredBlob(p) ==
  encryptVaultFile(procs[p].pw, procs[p].secrets, procs[p].index)

\* the rest of add
AddStore(p) ==
  /\ procs[p].pc = "loaded"
  /\ vault' = StoredBlob(p)
  /\ procs' = [procs EXCEPT ![p].pc = "stored"]
  /\ last' = OutcomeId("addStore", "ok", procs[p].id)
  /\ snap' = NoSnap
  /\ UNCHANGED <<files, nextUuid, ops, gitignore, tracked, conv, glob>>

RaceNames == { NoName, <<"d", "b">> }

NextRace ==
  \/ \E s \in SecretValues : Add(NoName, s, "pw")
  \/ \E p \in Procs, n \in RaceNames, s \in SecretValues, pw \in Passwords :
       AddLoad(p, n, s, pw)
  \/ \E p \in Procs : AddStore(p)

SpecRace == Init /\ [][NextRace]_vars

\* C20: when two invocations both load the catalogue before either stores
\* it, the vault after the later store is exactly the later invocation's
\* copy, and the record the earlier invocation added is not in it
C20_LastWriterWins ==
  [][ \A p \in Procs :
        ( /\ procs[p].pc = "loaded" /\ procs'[p].pc = "stored"
          /\ procs[Other(p)].pc = "stored"
          /\ procs[p].overlap ) =>
            /\ vault'.secrets = procs[p].secrets
            /\ vault'.index = procs[p].index
            /\ ~HasId(vault'.secrets, procs[Other(p)].id)
            /\ HasId(vault'.secrets, procs[p].id) ]_vars

C20_Witness ==
  /\ \A p \in Procs : procs[p].pc = "stored" /\ procs[p].overlap
  /\ last.op = "addStore"
  /\ Len(vault.secrets) = 2
  /\ \E p \in Procs : ~HasId(vault.secrets, procs[p].id)

-----------------------------------------------------------------------------
(* The pattern matcher, checked under SpecGlob *)

MaxPatternLen == 3

GlobNameChars == { "a", "+", "." }

GlobPatternChars == { "a", "+", ".", "*", "?" }

GlobNames == SeqsUpTo(GlobNameChars, MaxPatternLen) \ { <<>> }

PlainPatterns == SeqsUpTo(GlobPatternChars, MaxPatternLen) \ { <<>> }

\* (p|q) and ( p | q ) for the patterns of up to two characters
Alternations ==
  { <<"(">> \o p \o <<"|">> \o q \o <<")">> :
      p \in SeqsUpTo({"a", "*", "."}, 2) \cup { <<" ", "a", " ">> },
      q \in SeqsUpTo({"a", "?"}, 1) }

MatchPattern(name, pattern) ==
  /\ ~glob.tested
  /\ glob' = [tested |-> TRUE, name |-> name, pattern |-> pattern,
              result |-> matchesPattern(name, pattern)]
  /\ last' = Outcome("matchesPattern", "ok")
  /\ UNCHANGED <<vault, files, nextUuid, snap, ops, gitignore, tracked, conv, procs>>

\* the next test starts from a clean slate
ForgetMatch ==
  /\ glob.tested
  /\ glob' = NoGlob
  /\ last' = Outcome("init", "ok")
  /\ UNCHANGED <<vault, files, nextUuid, snap, ops, gitignore, tracked, conv, procs>>

NextGlob ==
  \/ \E name \in GlobNames, pattern \in PlainPatterns : MatchPattern(name, pattern)
  \/ \E name \in GlobNames, pattern \in Alternations : MatchPattern(name, pattern)
  \/ ForgetMatch

SpecGlob == Init /\ [][NextGlob]_vars

\* the glob as the claim reads it: "*" any run of characters, "?" exactly
\* one, every other character itself, the whole name taken up
RECURSIVE GlobMatches(_, _)
GlobMatches(pattern, name) ==
  IF pattern = <<>> THEN name = <<>>
  ELSE IF Head(pattern) = "*"
  THEN \E k \in 0..Len(name) : GlobMatches(Tail(pattern), SubSeq(name, k + 1, Len(name)))
  ELSE /\ name # <<>>
       /\ Head(pattern) = "?" \/ Head(pattern) = Head(name)
       /\ GlobMatches(Tail(pattern), Tail(name))

Parenthesized(pattern) ==
  pattern # <<>> /\ Head(pattern) = "(" /\ pattern[Len(pattern)] = ")"

Alternatives(pattern) ==
  LET pieces == SplitPipe(SubSeq(pattern, 2, Len(pattern) - 1), <<>>, <<>>)
  IN { Trim(pieces[i]) : i \in 1..Len(pieces) }

\* C21: a pattern matches a file iff the whole base name matches it with
\* "*" for any run of characters, "?" for exactly one character and every
\* other character for itself; a parenthesized alternation matches iff one
\* of its alternatives does
C21_GlobSemantics ==
  glob.tested =>
    (glob.result = "true" <=>
       IF Parenthesized(glob.pattern)
       THEN \E alt \in Alternatives(glob.pattern) : GlobMatches(alt, glob.name)
       ELSE GlobMatches(glob.pattern, glob.name))

-----------------------------------------------------------------------------
(* The full rebuild, checked under SpecRebuild *)

IndexPatterns ==
  { NoPattern, <<"*", ".", "t">>, <<"(", "a", "|", "c", ")">>, <<"a", "+">>, <<"+">> }

RebuildContents == { <<"q", "z", "e">>, <<"n", "o">> }

NextRebuild ==
  \/ \E s \in { <<"q">>, <<"q", "z">> } : Add(NoName, s, "pw")
  \/ \E all \in BOOLEAN, pattern \in IndexPatterns, pw \in Passwords :
       IndexPattern(all, {}, pattern, pw)
  \/ \E f \in {"a", "c"}, content \in RebuildContents : WriteFile(f, content)
  \/ \E rel \in IgnorePaths : IgnorePath(rel)
  \/ \E f \in WalkFiles : GitRm(f)

SpecRebuild == InitWalk /\ [][NextRebuild]_vars

\* the pattern as the pattern matcher's contract reads it
GlobReading(pattern, name) ==
  IF Parenthesized(pattern)
  THEN \E alt \in Alternatives(pattern) : GlobMatches(alt, name)
  ELSE GlobMatches(pattern, name)

\* the path of an index entry names the file, from the root or in full
PathDenotes(path, f) == path = RelPath[f] \/ path = AbsPath(f)

\* C22: after a full rebuild the index has exactly one entry for each file
\* that exists, is not ignored, matches the pattern and contains a
\* catalogued value, each entry lists exactly the ids of the records whose
\* value occurs in its file, and there is no other entry
C22_FullRebuildExact ==
  [][ (last'.op = "indexAll" /\ last'.status = "ok") =>
        LET pattern == last'.arg
            entries == vault'.index.entries
            Wanted(f) ==
              /\ files[f] # Absent
              /\ ~UnderIgnored(RelPath[f])
              /\ pattern = NoPattern \/ GlobReading(pattern, BaseName[f])
              /\ ContainsSecret(files[f], vault.secrets)
            EntriesFor(f) ==
              { i \in 1..Len(entries) : PathDenotes(entries[i].path, f) }
            IdsIn(f) ==
              { r.id : r \in { x \in Range(vault.secrets) : Includes(files[f], x.secret) } }
        IN
        /\ \A f \in AllNames :
             Cardinality(EntriesFor(f)) = IF Wanted(f) THEN 1 ELSE 0
        /\ \A i \in 1..Len(entries) : \E f \in AllNames : i \in EntriesFor(f)
        /\ \A f \in AllNames : \A i \in EntriesFor(f) :
             Range(entries[i].secretIds) = IdsIn(f) ]_vars

-----------------------------------------------------------------------------
(* The order of substitution, checked under SpecOrder *)

OrderValues == { <<"q">>, <<"q", "z">>, <<"_">>, <<"t", "_">> }

OrderContents == { <<"q", "z", "e">>, <<"k", "t", "_">> }

NextOrder ==
  \/ \E s \in OrderValues : Add(NoName, s, "pw")
  \/ \E f \in FileNames, pw \in Passwords : EncryptFile(f, pw)
  \/ \E f \in FileNames, content \in OrderContents : WriteFile(f, content)

SpecOrder == Init /\ [][NextOrder]_vars

ProperSubstring(s1, s2) == s1 # s2 /\ Includes(s2, s1)

\* C23: with a record whose value s1 is a proper substring of the value s2
\* of a later record, encrypting a file that contains s2 leaves the first
\* record's placeholder in the file and no placeholder of the later record
C23_EarlierRecordWins ==
  [][ (last'.op = "encryptFile" /\ last'.status = "ok") =>
        \A i, j \in 1..Len(vault.secrets) :
          ( /\ i < j
            /\ ProperSubstring(vault.secrets[i].secret, vault.secrets[j].secret)
            /\ Includes(snap'.before, vault.secrets[j].secret) ) =>
              /\ Includes(snap'.after, generatePlaceholder(vault.secrets[i]))
              /\ ~Includes(snap'.after, generatePlaceholder(vault.secrets[j])) ]_vars

-----------------------------------------------------------------------------
(* Encrypting through the index, checked under SpecFiles *)

\* the tree as encrypt --noindex leaves it: every file the walk reaches is
\* encrypted in place
ScanEncrypted ==
  [f \in AllNames |->
     IF AbsPath(f) \in Range(walkDir)
     THEN encryptSecretsInFile(files[f], vault.secrets).content
     ELSE files[f]]

\* C24: an encrypt run that uses the index, run directly after a full
\* rebuild of the index, leaves every file with the content that an encrypt
\* run with --noindex would have left
C24_IndexedEncryptAsScan ==
  [][ ( /\ last.op = "indexAll" /\ last.status = "ok"
        /\ last'.op = "encryptIndexed" /\ last'.status = "ok" ) =>
          files' = ScanEncrypted ]_vars

-----------------------------------------------------------------------------
(* The incremental index with nothing changed, checked under SpecIndex *)

\* C25: an incremental index run whose set of changed files is empty adds
\* no entry to the index and changes none; it only drops the entries whose
\* file no longer exists
C25_EmptyTargetsAddNothing ==
  [][ \A pw \in Passwords :
        (IndexCmd(FALSE, {}, pw) /\ last'.status = "ok") =>
          LET previous == IF vault.index.defined THEN vault.index.entries ELSE <<>>
          IN
          /\ \A n \in Range(vault'.index.entries) : n \in Range(previous)
          /\ \A e \in Range(previous) :
               (\E f \in AllNames : PathDenotes(e.path, f) /\ files[f] # Absent)
                 => e \in Range(vault'.index.entries) ]_vars

-----------------------------------------------------------------------------
(* The ids of the index, checked under Spec *)

\* C26: every id listed in the secretIds of an index entry is the id of a
\* record of the catalogue
C26_IndexIdsInCatalogue ==
  vault.index.defined =>
    \A e \in Range(vault.index.entries) :
      \A id \in Range(e.secretIds) : HasId(vault.secrets, id)

C26_Witness ==
  /\ last.op = "delete" /\ last.status = "ok"
  /\ vault.index.defined /\ Len(vault.index.entries) > 0
  /\ Len(vault.secrets) > 0

-----------------------------------------------------------------------------
(* Recognising a redacted file, checked under SpecPaths *)

\* C27: the path that the redact transform gives for a file name, with or
\* without an extension, is recognised as the path of a redacted file
C27_SiblingRecognised ==
  conv.stage # "none" => isRedactedFile(conv.redacted)

-----------------------------------------------------------------------------
(* The two side effects of redact, checked under SpecRedact *)

\* C28: a redact run with --nogitignore and without --nogitremove that
\* creates or updates the sibling of a tracked file still untracks the file
C28_UntrackWithoutIgnore ==
  [][ \A f \in RedactFiles, pw \in Passwords :
        ( /\ RedactFile(f, TRUE, FALSE, pw)
          /\ last'.status \in {"created", "updated"}
          /\ f \in tracked ) => f \notin tracked' ]_vars

-----------------------------------------------------------------------------
(* decrypt --noindex, checked under SpecScan *)

ScanValues == { <<"q">>, <<"q", "z">> }

NextScan ==
  \/ \E s \in ScanValues : Add(NoName, s, "pw")
  \/ \E all \in BOOLEAN : IndexCmd(all, {}, "pw")
  \/ \E noindex \in BOOLEAN, pw \in Passwords : EncryptCmd(noindex, pw)
  \/ \E noindex \in BOOLEAN, pw \in Passwords : DecryptCmd(noindex, pw)
  \/ \E f \in FileNames, content \in Contents : WriteFile(f, content)

SpecScan == Init /\ [][NextScan]_vars

\* the tree as a decrypt of every file the walk reaches leaves it
ScanDecrypted ==
  [f \in AllNames |->
     IF AbsPath(f) \in Range(walkDir)
     THEN decryptSecretsInFile(files[f], vault.secrets).content
     ELSE files[f]]

\* C30: a decrypt run with --noindex does not go through the index: it
\* decrypts every file the walk reaches, as encrypt --noindex encrypts them
C30_DecryptNoindexScans ==
  [][ \A pw \in Passwords :
        (DecryptCmd(TRUE, pw) /\ last'.status = "ok") =>
          /\ last'.op = "decryptScan"
          /\ files' = ScanDecrypted ]_vars

-----------------------------------------------------------------------------
(* The substitution commands and the vault, checked under SpecFrame *)

FrameValues == { <<"q">>, <<"_">> }

FrameContents == { <<"q", "z", "e">>, <<"n", "o">> }

NextFrame ==
  \/ \E s \in FrameValues : Add(NoName, s, "pw")
  \/ IndexCmd(TRUE, {}, "pw")
  \/ \E f \in FileNames, pw \in Passwords : EncryptFile(f, pw)
  \/ \E f \in FileNames, pw \in Passwords : DecryptFile(f, pw)
  \/ \E noindex \in BOOLEAN, pw \in Passwords : EncryptCmd(noindex, pw)
  \/ \E noindex \in BOOLEAN, pw \in Passwords : DecryptCmd(noindex, pw)
  \/ \E f \in RedactFiles, pw \in Passwords : RedactFile(f, FALSE, FALSE, pw)
  \/ \E f \in RedactFiles, pw \in Passwords : UnredactFile(f, pw)
  \/ \E pw \in Passwords : EncryptSecretsPath(pw)
  \/ \E f \in FileNames, content \in FrameContents : WriteFile(f, content)

SpecFrame == Init /\ [][NextFrame]_vars

\* a step of encrypt, decrypt, redact or unredact, whatever its path
SubstitutionCommand ==
  \/ \E f \in FileNames, pw \in Passwords : EncryptFile(f, pw)
  \/ \E f \in FileNames, pw \in Passwords : DecryptFile(f, pw)
  \/ \E noindex \in BOOLEAN, pw \in Passwords : EncryptCmd(noindex, pw)
  \/ \E noindex \in BOOLEAN, pw \in Passwords : DecryptCmd(noindex, pw)
  \/ \E f \in RedactFiles, pw \in Passwords : RedactFile(f, FALSE, FALSE, pw)
  \/ \E f \in RedactFiles, pw \in Passwords : UnredactFile(f, pw)
  \/ \E pw \in Passwords : EncryptSecretsPath(pw)

\* C29: encrypt, decrypt, redact and unredact leave the persisted vault, its
\* blob, records and index, as it was before the command
C29_SubstitutionKeepsVault ==
  [][ SubstitutionCommand => vault' = vault ]_vars

====
